---- MODULE Spec2Model ----
(***************************************************************************)
(* Simulation (simulation.py): the state compositor (reset_env,            *)
(* get_next_state) and the training loop (train), with the numpy and       *)
(* collections.deque operations they call modelled by what they compute.   *)
(***************************************************************************)
EXTENDS Integers, Sequences, FiniteSets, TLC

(***************************************************************************)
(* Bounds of the model.                                                    *)
(***************************************************************************)
MaxEpisodes == 3
MaxCapacity == 2
MaxTarget == 2
MaxTestEvery == 2
MaxTestOn == 2
MaxReward == 1
MaxSteps == 2
MaxStack == 3
StackSteps == 3
MaxObsVal == 3
F32Grid == 2

(***************************************************************************)
(* Floating point scalars: a rational num/den, or -inf, or nan, or a slot  *)
(* of np.empty that was never written.                                     *)
(***************************************************************************)
Num(n, d) == [kind |-> "num", num |-> n, den |-> d]
NegInf == [kind |-> "neginf", num |-> 0, den |-> 1]
NaN == [kind |-> "nan", num |-> 0, den |-> 1]
Uninit == [kind |-> "uninit", num |-> 0, den |-> 1]

\* Python's a < b on floats: every comparison with nan is False.
Less(a, b) ==
    CASE a.kind = "nan" \/ b.kind = "nan" -> FALSE
      [] a.kind = "neginf" -> b.kind # "neginf"
      [] b.kind = "neginf" -> FALSE
      [] OTHER -> a.num * b.den < b.num * a.den

\* Python's a >= b on floats.
GreaterEq(a, b) ==
    CASE a.kind = "nan" \/ b.kind = "nan" -> FALSE
      [] b.kind = "neginf" -> TRUE
      [] a.kind = "neginf" -> FALSE
      [] OTHER -> a.num * b.den >= b.num * a.den

RECURSIVE SumSeq(_)
SumSeq(s) == IF s = <<>> THEN 0 ELSE s[1] + SumSeq(Tail(s))

\* A mean that would be the newest number alone.
np_mean_newest(xs) == IF Len(xs) = 0 THEN NaN ELSE Num(xs[Len(xs)], 1)

\* np.mean of a deque of numbers: sum / count, and nan for an empty one.
np_mean(xs) == IF Len(xs) = 0 THEN NaN ELSE Num(SumSeq(xs), Len(xs))

\* The last n elements of s (all of s when it has fewer).
LastN(s, n) == IF Len(s) <= n THEN s ELSE SubSeq(s, Len(s) - n + 1, Len(s))

(***************************************************************************)
(* collections.deque(maxlen=n).append(x)                                   *)
(***************************************************************************)
\* A bounded window that would drop the new element when full.
deque_append_keep_oldest(d, maxlen, x) ==
    IF Len(d) >= maxlen THEN d ELSE Append(d, x)

\* A full deque drops its oldest element; maxlen 0 keeps nothing.
deque_append(d, maxlen, x) ==
    IF maxlen = 0 THEN d
    ELSE IF Len(d) = maxlen THEN Append(Tail(d), x)
    ELSE Append(d, x)

(***************************************************************************)
(* numpy arrays: a shape, a dtype and one value per index tuple (0-based). *)
(* A raised exception is a record with the single field raise.             *)
(***************************************************************************)
Raise(e) == [raise |-> e]
IsRaise(x) == "raise" \in DOMAIN x

RECURSIVE Indices(_)
Indices(shape) ==
    IF shape = <<>> THEN {<<>>}
    ELSE {<<i>> \o rest : i \in 0..(shape[1] - 1), rest \in Indices(Tail(shape))}

\* The array of a shape whose value at index idx is data[idx].
ndarray(shape, dtype, data) == [shape |-> shape, dtype |-> dtype, data |-> data]

\* A view of a: the array of a shape whose element at idx is the element
\* sel[idx] of a.  numpy allocates nothing for it: when a lies in a buffer
\* (base, its element idx being element map[idx] of the buffer), so does
\* the view.
view(a, shape, sel) ==
    IF "base" \in DOMAIN a
    THEN [shape |-> shape, dtype |-> a.dtype,
          data |-> [idx \in Indices(shape) |-> a.data[sel[idx]]],
          base |-> a.base,
          map |-> [idx \in Indices(shape) |-> a.map[sel[idx]]]]
    ELSE ndarray(shape, a.dtype, [idx \in Indices(shape) |-> a.data[sel[idx]]])

\* s with x put at position p (1-based), and s without its position p.
InsertAt(s, p, x) == SubSeq(s, 1, p - 1) \o <<x>> \o SubSeq(s, p, Len(s))
RemoveAt(s, p) == SubSeq(s, 1, p - 1) \o SubSeq(s, p + 1, Len(s))

\* Rounding of a float64 value to float32 (nearest, ties to even), with the
\* float32 values F32Grid apart in units of the float64 resolution.
F32(v) ==
    LET q == v \div F32Grid
        r == v % F32Grid
    IN  IF 2 * r < F32Grid THEN q * F32Grid
        ELSE IF 2 * r > F32Grid THEN (q + 1) * F32Grid
        ELSE IF q % 2 = 0 THEN q * F32Grid ELSE (q + 1) * F32Grid

\* A cast that would return a itself when it already is float32
\* (copy=False).
astype_float32_no_copy(a) ==
    IF a.dtype = "float32" THEN a
    ELSE ndarray(a.shape, "float32", [idx \in DOMAIN a.data |-> F32(a.data[idx])])

\* a.astype(np.float32): always a new array.
astype_float32(a) ==
    ndarray(a.shape, "float32", [idx \in DOMAIN a.data |-> F32(a.data[idx])])

\* np.stack(arrays, axis=1) of arrays of one shape: the new axis is the
\* second one, which exists only when the arrays have rank >= 1.
np_stack_axis1(arrays) ==
    LET a == arrays[1]
        shape == InsertAt(a.shape, 2, Len(arrays))
    IN  IF Len(a.shape) < 1 THEN Raise("AxisError")
        ELSE ndarray(shape, a.dtype,
                     [idx \in Indices(shape) |-> arrays[idx[2] + 1].data[RemoveAt(idx, 2)]])

\* The index of a that index idx of np.squeeze(a) stands for.
RECURSIVE Unsqueeze(_, _)
Unsqueeze(shape, idx) ==
    IF shape = <<>> THEN <<>>
    ELSE IF shape[1] = 1 THEN <<0>> \o Unsqueeze(Tail(shape), idx)
    ELSE <<idx[1]>> \o Unsqueeze(Tail(shape), Tail(idx))

\* np.squeeze(a): every axis of length 1 is removed (a view).
np_squeeze(a) ==
    LET shape == SelectSeq(a.shape, LAMBDA n : n # 1) IN
    view(a, shape, [idx \in Indices(shape) |-> Unsqueeze(a.shape, idx)])

\* a[:, 1:] (a view)
slice_axis1_from1(a) ==
    LET shape == [a.shape EXCEPT ![2] = IF @ > 0 THEN @ - 1 ELSE 0] IN
    IF Len(a.shape) < 2 THEN Raise("IndexError")
    ELSE view(a, shape, [idx \in Indices(shape) |-> [idx EXCEPT ![2] = @ + 1]])

\* np.expand_dims(a, 1) (a view)
np_expand_dims_axis1(a) ==
    LET shape == InsertAt(a.shape, 2, 1) IN
    IF Len(a.shape) < 1 THEN Raise("AxisError")
    ELSE view(a, shape, [idx \in Indices(shape) |-> RemoveAt(idx, 2)])

\* The dtype numpy gives the concatenation of two float arrays.
result_type(d1, d2) == IF d1 = "float32" /\ d2 = "float32" THEN "float32" ELSE "float64"

\* np.append(a, b, axis=1)
np_append_axis1(a, b) ==
    LET shape == [a.shape EXCEPT ![2] = @ + b.shape[2]] IN
    IF Len(a.shape) # Len(b.shape) THEN Raise("ValueError")
    ELSE IF Len(a.shape) < 2 THEN Raise("AxisError")
    ELSE IF RemoveAt(a.shape, 2) # RemoveAt(b.shape, 2) THEN Raise("ValueError")
    ELSE ndarray(shape, result_type(a.dtype, b.dtype),
                 [idx \in Indices(shape) |->
                    IF idx[2] < a.shape[2] THEN a.data[idx]
                    ELSE b.data[[idx EXCEPT ![2] = @ - a.shape[2]]]])

(***************************************************************************)
(* Simulation.reset_env and Simulation.get_next_state                      *)
(***************************************************************************)
\* np.stack(arrays, axis=0)
np_stack_axis0(arrays) ==
    LET shape == <<Len(arrays)>> \o arrays[1].shape IN
    ndarray(shape, arrays[1].dtype,
            [idx \in Indices(shape) |-> arrays[idx[1] + 1].data[Tail(idx)]])

\* A reset that would stack along the first axis.
reset_env_stack_axis0(nb, obs) ==
    np_squeeze(astype_float32(np_stack_axis0([j \in 1..nb |-> obs])))

\* reset_env, given what env.reset() returned.
reset_env(nb, obs) ==
    LET s == np_stack_axis1([j \in 1..nb |-> obs]) IN
    IF IsRaise(s) THEN s ELSE np_squeeze(astype_float32(s))

\* A next state that would be the current one when nothing is stacked.
get_next_state_keeps_state(nb, current_state, new_obs) ==
    IF nb = 1 THEN current_state
    ELSE LET kept == slice_axis1_from1(current_state) IN
         IF IsRaise(kept) THEN kept
         ELSE LET newest == np_expand_dims_axis1(new_obs) IN
              IF IsRaise(newest) THEN newest
              ELSE LET s == np_append_axis1(kept, newest) IN
                   IF IsRaise(s) THEN s ELSE astype_float32(s)

\* get_next_state
get_next_state(nb, current_state, new_obs) ==
    IF nb = 1 THEN astype_float32(new_obs)
    ELSE LET kept == slice_axis1_from1(current_state) IN
         IF IsRaise(kept) THEN kept
         ELSE LET newest == np_expand_dims_axis1(new_obs) IN
              IF IsRaise(newest) THEN newest
              ELSE LET s == np_append_axis1(kept, newest) IN
                   IF IsRaise(s) THEN s ELSE astype_float32(s)

(***************************************************************************)
(* The collaborators.  env: the shape of its observations, the values an   *)
(* observation is made of, the rewards a step can give and the number of   *)
(* steps after which it reports done at the latest.                        *)
(***************************************************************************)
Offset(idx) == SumSeq([j \in 1..Len(idx) |-> j * idx[j]])

Obs(shape, v) ==
    ndarray(shape, "float64",
            [idx \in Indices(shape) |-> (v + Offset(idx)) % (MaxObsVal + 1)])

EnvObs(e) == {Obs(e.shape, v) : v \in e.obs_vals}

None == [none |-> TRUE]

VARIABLES nb_stacked_frame, env, agent_shape, run, twin

vars == <<nb_stacked_frame, env, agent_shape, run, twin>>

(***************************************************************************)
(* The frame of one call of train: its arguments, its locals, its position *)
(* (pc; after an exception, raised and raised_at), what it appended to     *)
(* agent.memory, how often it called agent.learn_end_ep and env.render     *)
(* (render_calls: in the current episode), and what it handed to the       *)
(* plot.  t and obs_hist record the steps and the observations of the      *)
(* current episode, calls the calls made to the environment, the agent     *)
(* and the window, in the order they were made.                            *)
(***************************************************************************)
\* A call that returned, with the argument kept of it, and one that raised.
Call(name, arg) == [call |-> name, arg |-> arg, raise |-> ""]
FailedCall(name, arg, e) == [call |-> name, arg |-> arg, raise |-> e]

\* The frame after the calls cs.
Logged(f, cs) == [f EXCEPT !.calls = @ \o cs]

NewRun(target, max_ep, cap, every, on) ==
    [pc |-> "new", raised |-> "", raised_at |-> "",
     target_score |-> target, max_episodes |-> max_ep,
     process_average_over |-> cap, test_every |-> every, test_on |-> on,
     training_score |-> <<>>, training_rolling_average |-> <<>>,
     total_rewards |-> <<>>, rolling_mean_score |-> NegInf, ep |-> 0,
     state |-> None, episode_reward |-> 0, done |-> FALSE, visualize |-> FALSE,
     memory |-> <<>>, learn_calls |-> 0, render_calls |-> 0,
     t |-> 0, obs_hist |-> <<>>, plotted |-> None, calls |-> <<>>]

\* The call ends with exception e, raised_at keeping where it was.
Raised(f, e) == [f EXCEPT !.pc = "raised", !.raised = e, !.raised_at = f.pc]

\* Simulation.__init__, up to the construction of the agent: the shape the
\* agent is built for, or the exception.
init_agent_shape(nb, obs) ==
    IF nb < 1 THEN Raise("AssertionError")
    ELSE LET s == reset_env(nb, obs) IN
         IF IsRaise(s) THEN s ELSE [shape |-> s.shape]

\* A constructor that would test the stack depth after resetting.
construct_asserts_late(f, nb, obs0) ==
    LET made == Logged(f, <<Call("gym.make", <<>>), Call("env.reset", <<>>)>>) IN
    IF nb < 1 THEN Raised(made, "AssertionError")
    ELSE LET a == init_agent_shape(nb, obs0) IN
         IF IsRaise(a) THEN Raised(made, a.raise)
         ELSE [Logged(made, <<Call("Agent", a.shape)>>) EXCEPT !.pc = "ready"]

\* Simulation.__init__ as a step of the run: the assertion, gym.make, the
\* reset of reset_env, the agent; and the shape the agent is built for
\* (unchanged when the constructor raises).
construct(f, nb, obs0) ==
    LET a == init_agent_shape(nb, obs0)
        made == Logged(f, <<Call("gym.make", <<>>), Call("env.reset", <<>>)>>)
    IN  IF nb < 1 THEN Raised(f, a.raise)
        ELSE IF IsRaise(a) THEN Raised(made, a.raise)
        ELSE [Logged(made, <<Call("Agent", a.shape)>>) EXCEPT !.pc = "ready"]

agent_input_shape(old, nb, obs0) ==
    LET a == init_agent_shape(nb, obs0) IN
    IF IsRaise(a) THEN old ELSE a.shape

\* train, from its call to the first test of the loop.
train_enter(f) ==
    [f EXCEPT !.pc = "while",
              !.training_score = [i \in 1..f.max_episodes |-> Uninit],
              !.training_rolling_average = [i \in 1..f.max_episodes |-> Uninit],
              !.total_rewards = <<>>,
              !.rolling_mean_score = NegInf,
              !.ep = 0]

\* The condition of the outer loop.
loop_condition(f) ==
    Less(f.rolling_mean_score, Num(f.target_score, 1)) /\ f.ep < f.max_episodes

\* A test on the 0-based index: ep % test_every < test_on.
visualize_ep_index(ep, test_every, test_on) ==
    IF test_on <= 0 THEN [value |-> FALSE]
    ELSE IF test_every = 0 THEN Raise("ZeroDivisionError")
    ELSE [value |-> (ep % test_every < test_on)]

\* visualize = (ep + 1) > test_on and (ep + 1) % test_every < test_on
visualize_expr(ep, test_every, test_on) ==
    IF ~((ep + 1) > test_on) THEN [value |-> FALSE]
    ELSE IF test_every = 0 THEN Raise("ZeroDivisionError")
    ELSE [value |-> ((ep + 1) % test_every < test_on)]

\* The start of an episode: the loop test passed, reset_env, the locals.
episode_begin(f, nb, obs0) ==
    LET s == reset_env(nb, obs0)
        v == visualize_expr(f.ep, f.test_every, f.test_on)
        g == Logged(f, <<Call("env.reset", <<>>)>>)
    IN  IF IsRaise(s) THEN Raised(g, s.raise)
        ELSE IF IsRaise(v)
             THEN Raised([g EXCEPT !.state = s, !.episode_reward = 0,
                                   !.done = FALSE, !.obs_hist = <<obs0>>],
                         v.raise)
        ELSE [g EXCEPT !.pc = "step", !.state = s, !.episode_reward = 0,
                       !.done = FALSE, !.visualize = v.value,
                       !.render_calls = 0, !.t = 0, !.obs_hist = <<obs0>>]

\* A tuple that would hold the new state twice.
Transition_from_next_state(state, action, reward, next_state, d) ==
    [state |-> next_state, action |-> action, reward |-> reward,
     next_state |-> next_state, done |-> d]

\* The tuple (state, action, reward, next_state, done) of line 76.
Transition(state, action, reward, next_state, d) ==
    [state |-> state, action |-> action, reward |-> reward,
     next_state |-> next_state, done |-> d]

\* An inner loop that would also end once the episode's reward has
\* reached target_score.
episode_step_until_target(f, nb, action, obs, reward, d) ==
    LET next_state == get_next_state(nb, f.state, obs)
        stepped == <<Call("agent.take_action", <<>>), Call("env.step", action)>>
                   \o (IF f.visualize THEN <<Call("env.render", <<>>)>> ELSE <<>>)
        g == [Logged(f, stepped) EXCEPT
                       !.done = d,
                       !.render_calls = IF f.visualize THEN @ + 1 ELSE @,
                       !.episode_reward = @ + reward,
                       !.t = @ + 1,
                       !.obs_hist = Append(@, obs)]
    IN  IF IsRaise(next_state) THEN Raised(g, next_state.raise)
        ELSE [g EXCEPT !.memory = Append(@, Transition(f.state, action, reward, next_state, d)),
                       !.calls = Append(@, Call("agent.memory.append", <<>>)),
                       !.state = next_state,
                       !.pc = IF d \/ g.episode_reward >= f.target_score
                              THEN "learn" ELSE "step"]

\* One pass of the inner loop, the agent having chosen action and the
\* environment answering (obs, reward, d).

episode_step(f, nb, action, obs, reward, d) ==
    LET next_state == get_next_state(nb, f.state, obs)
        stepped == <<Call("agent.take_action", <<>>), Call("env.step", action)>>
                   \o (IF f.visualize THEN <<Call("env.render", <<>>)>> ELSE <<>>)
        g == [Logged(f, stepped) EXCEPT
                       !.done = d,
                       !.render_calls = IF f.visualize THEN @ + 1 ELSE @,
                       !.episode_reward = @ + reward,
                       !.t = @ + 1,
                       !.obs_hist = Append(@, obs)]
    IN  IF IsRaise(next_state) THEN Raised(g, next_state.raise)
        ELSE [g EXCEPT !.memory = Append(@, Transition(f.state, action, reward, next_state, d)),
                       !.calls = Append(@, Call("agent.memory.append", <<>>)),
                       !.state = next_state,
                       !.pc = IF d THEN "learn" ELSE "step"]

\* A loop body that would call the hook twice.
episode_learn_twice(f) ==
    [f EXCEPT !.learn_calls = @ + 2,
              !.calls = @ \o <<Call("agent.learn_end_ep", <<>>),
                               Call("agent.learn_end_ep", <<>>)>>,
              !.pc = "record"]

\* self.agent.learn_end_ep()
episode_learn(f) ==
    [f EXCEPT !.learn_calls = @ + 1,
              !.calls = Append(@, Call("agent.learn_end_ep", <<>>)),
              !.pc = "record"]

\* The rest of the loop body: the window, the mean, the two records, ep.
episode_record(f) ==
    LET window == deque_append(f.total_rewards, f.process_average_over, f.episode_reward)
        mean == np_mean(window)
    IN  [f EXCEPT !.total_rewards = window,
                  !.rolling_mean_score = mean,
                  !.training_score[f.ep + 1] = Num(f.episode_reward, 1),
                  !.training_rolling_average[f.ep + 1] = mean,
                  !.calls = @ \o <<Call("total_rewards.append", f.episode_reward),
                                   Call("agent.print_verbose", <<>>),
                                   Call("env.close", <<>>)>>,
                  !.ep = @ + 1,
                  !.pc = "while"]

\* A cut that would keep the whole allocation.
slice_to_capacity(a, n) == a

\* a[:n]
slice_to(a, n) == SubSeq(a, 1, IF n < Len(a) THEN n ELSE Len(a))

\* After the loop: the records are cut to ep entries and plotted.
train_finish(f) ==
    [f EXCEPT !.pc = "done",
              !.training_score = slice_to(@, f.ep),
              !.training_rolling_average = slice_to(@, f.ep),
              !.plotted = [score |-> slice_to(f.training_score, f.ep),
                           rolling_average |-> slice_to(f.training_rolling_average, f.ep),
                           target |-> [i \in 1..f.ep |-> f.target_score]]]

(***************************************************************************)
(* Actions                                                                 *)
(***************************************************************************)
Construct ==
    /\ run.pc = "new"
    /\ \E obs0 \in EnvObs(env) :
         /\ run' = construct(run, nb_stacked_frame, obs0)
         /\ agent_shape' = agent_input_shape(agent_shape, nb_stacked_frame, obs0)
    /\ UNCHANGED <<nb_stacked_frame, env, twin>>

TrainEnter ==
    /\ run.pc = "ready"
    /\ run' = train_enter(run)
    /\ UNCHANGED <<nb_stacked_frame, env, agent_shape, twin>>

EpisodeBegin ==
    /\ run.pc = "while"
    /\ loop_condition(run)
    /\ \E obs0 \in EnvObs(env) : run' = episode_begin(run, nb_stacked_frame, obs0)
    /\ UNCHANGED <<nb_stacked_frame, env, agent_shape, twin>>

StepDone(f) == IF f.t + 1 >= env.horizon THEN {TRUE} ELSE BOOLEAN

EpisodeStep ==
    /\ run.pc = "step"
    /\ \E action \in env.actions, obs \in EnvObs(env), reward \in env.rewards,
          d \in StepDone(run) :
         run' = episode_step(run, nb_stacked_frame, action, obs, reward, d)
    /\ UNCHANGED <<nb_stacked_frame, env, agent_shape, twin>>

EpisodeLearn ==
    /\ run.pc = "learn"
    /\ run' = episode_learn(run)
    /\ UNCHANGED <<nb_stacked_frame, env, agent_shape, twin>>

EpisodeRecord ==
    /\ run.pc = "record"
    /\ run' = episode_record(run)
    /\ UNCHANGED <<nb_stacked_frame, env, agent_shape, twin>>

TrainFinish ==
    /\ run.pc = "while"
    /\ ~loop_condition(run)
    /\ run' = train_finish(run)
    /\ UNCHANGED <<nb_stacked_frame, env, agent_shape, twin>>

Next ==
    \/ Construct
    \/ TrainEnter
    \/ EpisodeBegin
    \/ EpisodeStep
    \/ EpisodeLearn
    \/ EpisodeRecord
    \/ TrainFinish

(***************************************************************************)
(* Initial states: the simulations and the calls of train considered.      *)
(***************************************************************************)
Off == [pc |-> "off"]

\* Calls of train over its arguments target_score, max_episodes and
\* process_average_over, the other two at their defaults, on a plain
\* environment without frame stacking.
InitTrain ==
    /\ nb_stacked_frame = 1
    /\ env = [shape |-> <<2>>, obs_vals |-> {0}, actions |-> {0, 1},
              rewards |-> 0..MaxReward, horizon |-> MaxSteps]
    /\ \E target \in 1..MaxTarget, max_ep \in 0..MaxEpisodes, cap \in 0..MaxCapacity :
         run = NewRun(target, max_ep, cap, 50, 0)

\* Calls of train over its arguments test_every and test_on, on an
\* environment whose rewards never reach the target.
InitVisualize ==
    /\ nb_stacked_frame = 1
    /\ env = [shape |-> <<2>>, obs_vals |-> {0}, actions |-> {0},
              rewards |-> {0}, horizon |-> MaxSteps]
    /\ \E every \in 0..MaxTestEvery, on \in 0..MaxTestOn :
         run = NewRun(1, MaxEpisodes, 1, every, on)

\* The call train(target_score=10, max_episodes=5, process_average_over=5)
\* with the other arguments at their defaults, one step per episode.
InitScenario ==
    /\ nb_stacked_frame = 1
    /\ env = [shape |-> <<2>>, obs_vals |-> {0}, actions |-> {0},
              rewards |-> {2, 4, 6, 8, 10}, horizon |-> 1]
    /\ run = NewRun(10, 5, 5, 50, 0)

Init ==
    /\ agent_shape = <<>>
    /\ twin = Off
    /\ (InitTrain \/ InitVisualize \/ InitScenario)

Spec == Init /\ [][Next]_vars

\* Simulations over the stack depths (among them the depths below 1) and
\* the observation shapes, running one episode.
Shapes == {<<>>, <<1>>, <<2>>, <<2, 1>>, <<1, 2>>, <<2, 3>>}

InitStack ==
    /\ agent_shape = <<>>
    /\ twin = Off
    /\ nb_stacked_frame \in (-1)..MaxStack
    /\ \E shape \in Shapes :
         env = [shape |-> shape, obs_vals |-> 0..MaxObsVal, actions |-> {0},
                rewards |-> {0}, horizon |-> StackSteps]
    /\ run = NewRun(1, 1, 1, 50, 0)

SpecStack == InitStack /\ [][Next]_vars

(***************************************************************************)
(* Two calls of train side by side (run and twin), on two simulations of   *)
(* the same environment and agent: both get the same observations,         *)
(* actions, rewards and done flags, and differ in (test_every, test_on).   *)
(***************************************************************************)
PairEpisodes == 2

PairConstruct ==
    /\ run.pc = "new" /\ twin.pc = "new"
    /\ \E obs0 \in EnvObs(env) :
         /\ run' = construct(run, nb_stacked_frame, obs0)
         /\ twin' = construct(twin, nb_stacked_frame, obs0)
         /\ agent_shape' = agent_input_shape(agent_shape, nb_stacked_frame, obs0)
    /\ UNCHANGED <<nb_stacked_frame, env>>

PairTrainEnter ==
    /\ run.pc = "ready" /\ twin.pc = "ready"
    /\ run' = train_enter(run)
    /\ twin' = train_enter(twin)
    /\ UNCHANGED <<nb_stacked_frame, env, agent_shape>>

PairEpisodeBegin ==
    /\ run.pc = "while" /\ twin.pc = "while"
    /\ loop_condition(run) /\ loop_condition(twin)
    /\ \E obs0 \in EnvObs(env) :
         /\ run' = episode_begin(run, nb_stacked_frame, obs0)
         /\ twin' = episode_begin(twin, nb_stacked_frame, obs0)
    /\ UNCHANGED <<nb_stacked_frame, env, agent_shape>>

PairEpisodeStep ==
    /\ run.pc = "step" /\ twin.pc = "step"
    /\ \E action \in env.actions, obs \in EnvObs(env), reward \in env.rewards,
          d \in StepDone(run) :
         /\ run' = episode_step(run, nb_stacked_frame, action, obs, reward, d)
         /\ twin' = episode_step(twin, nb_stacked_frame, action, obs, reward, d)
    /\ UNCHANGED <<nb_stacked_frame, env, agent_shape>>

PairEpisodeLearn ==
    /\ run.pc = "learn" /\ twin.pc = "learn"
    /\ run' = episode_learn(run)
    /\ twin' = episode_learn(twin)
    /\ UNCHANGED <<nb_stacked_frame, env, agent_shape>>

PairEpisodeRecord ==
    /\ run.pc = "record" /\ twin.pc = "record"
    /\ run' = episode_record(run)
    /\ twin' = episode_record(twin)
    /\ UNCHANGED <<nb_stacked_frame, env, agent_shape>>

PairTrainFinish ==
    /\ run.pc = "while" /\ twin.pc = "while"
    /\ ~loop_condition(run) /\ ~loop_condition(twin)
    /\ run' = train_finish(run)
    /\ twin' = train_finish(twin)
    /\ UNCHANGED <<nb_stacked_frame, env, agent_shape>>

NextPair ==
    \/ PairConstruct
    \/ PairTrainEnter
    \/ PairEpisodeBegin
    \/ PairEpisodeStep
    \/ PairEpisodeLearn
    \/ PairEpisodeRecord
    \/ PairTrainFinish

InitPair ==
    /\ agent_shape = <<>>
    /\ nb_stacked_frame = 1
    /\ env = [shape |-> <<2>>, obs_vals |-> {0}, actions |-> {0},
              rewards |-> 0..MaxReward, horizon |-> MaxSteps]
    /\ \E target \in 1..MaxTarget, cap \in 0..MaxCapacity,
          every1 \in 0..MaxTestEvery, on1 \in 0..MaxTestOn,
          every2 \in 0..MaxTestEvery, on2 \in 0..MaxTestOn :
         /\ <<every1, on1>> # <<every2, on2>>
         /\ run = NewRun(target, PairEpisodes, cap, every1, on1)
         /\ twin = NewRun(target, PairEpisodes, cap, every2, on2)

SpecPair == InitPair /\ [][NextPair]_vars

(***************************************************************************)
(* Collaborators that raise.  train has no try statement: an exception of  *)
(* a call of the environment or the agent ends the call of train where it  *)
(* is raised, with what the statements before it have done.                *)
(***************************************************************************)
FailEpisodes == 2
FailSteps == 2

Exceptions == {"RuntimeError", "ValueError"}

\* self.env.reset() of line 63 (in reset_env) raises e.
reset_raises(f, e) ==
    Raised(Logged(f, <<FailedCall("env.reset", <<>>, e)>>), e)

\* self.agent.take_action of line 69 raises e.
take_action_raises(f, e) ==
    Raised(Logged(f, <<FailedCall("agent.take_action", <<>>, e)>>), e)

\* self.env.step of line 70 raises e.
step_raises(f, action, e) ==
    Raised(Logged(f, <<Call("agent.take_action", <<>>),
                       FailedCall("env.step", action, e)>>), e)

\* self.agent.memory.append of line 76 raises e, lines 69 to 75 done.
append_raises(f, nb, action, obs, reward, d, e) ==
    LET next_state == get_next_state(nb, f.state, obs)
        stepped == <<Call("agent.take_action", <<>>), Call("env.step", action)>>
                   \o (IF f.visualize THEN <<Call("env.render", <<>>)>> ELSE <<>>)
        g == [Logged(f, stepped) EXCEPT
                       !.done = d,
                       !.render_calls = IF f.visualize THEN @ + 1 ELSE @,
                       !.episode_reward = @ + reward,
                       !.t = @ + 1,
                       !.obs_hist = Append(@, obs)]
    IN  IF IsRaise(next_state) THEN Raised(g, next_state.raise)
        ELSE Raised(Logged(g, <<FailedCall("agent.memory.append", <<>>, e)>>), e)

\* A hook whose exception would be caught and passed over.
learn_raises_swallowed(f, e) ==
    [f EXCEPT !.calls = Append(@, FailedCall("agent.learn_end_ep", <<>>, e)),
              !.pc = "record"]

\* self.agent.learn_end_ep of line 78 raises e.
learn_raises(f, e) ==
    Raised(Logged(f, <<FailedCall("agent.learn_end_ep", <<>>, e)>>), e)

ResetRaises ==
    /\ run.pc = "while"
    /\ loop_condition(run)
    /\ \E e \in Exceptions : run' = reset_raises(run, e)
    /\ UNCHANGED <<nb_stacked_frame, env, agent_shape, twin>>

TakeActionRaises ==
    /\ run.pc = "step"
    /\ \E e \in Exceptions : run' = take_action_raises(run, e)
    /\ UNCHANGED <<nb_stacked_frame, env, agent_shape, twin>>

StepRaises ==
    /\ run.pc = "step"
    /\ \E action \in env.actions, e \in Exceptions : run' = step_raises(run, action, e)
    /\ UNCHANGED <<nb_stacked_frame, env, agent_shape, twin>>

AppendRaises ==
    /\ run.pc = "step"
    /\ \E action \in env.actions, obs \in EnvObs(env), reward \in env.rewards,
          d \in StepDone(run), e \in Exceptions :
         run' = append_raises(run, nb_stacked_frame, action, obs, reward, d, e)
    /\ UNCHANGED <<nb_stacked_frame, env, agent_shape, twin>>

LearnRaises ==
    /\ run.pc = "learn"
    /\ \E e \in Exceptions : run' = learn_raises(run, e)
    /\ UNCHANGED <<nb_stacked_frame, env, agent_shape, twin>>

NextFail ==
    \/ Construct
    \/ TrainEnter
    \/ EpisodeBegin
    \/ ResetRaises
    \/ EpisodeStep
    \/ TakeActionRaises
    \/ StepRaises
    \/ AppendRaises
    \/ EpisodeLearn
    \/ LearnRaises
    \/ EpisodeRecord
    \/ TrainFinish

\* The calls train(target_score, max_episodes=FailEpisodes,
\* process_average_over=1) with target_score 1 or 2, on an environment
\* with rewards 0 and 1.
InitFail ==
    /\ agent_shape = <<>>
    /\ twin = Off
    /\ nb_stacked_frame = 1
    /\ env = [shape |-> <<2>>, obs_vals |-> {0}, actions |-> {0},
              rewards |-> {0, 1}, horizon |-> FailSteps]
    /\ \E target \in {1, 2} : run = NewRun(target, FailEpisodes, 1, 50, 0)

SpecFail == InitFail /\ [][NextFail]_vars

(***************************************************************************)
(* An environment that, from its episode endless_from on (counted from     *)
(* 0), never reports done, and ends the episodes before after one step.    *)
(* The steps of an episode without end are followed up to EndlessSteps.    *)
(***************************************************************************)
EndlessEpisodes == 2
EndlessSteps == 4

\* The done flags env.step can give at the next step of the episode.
EndlessDone(f) == IF f.ep >= env.endless_from THEN {FALSE} ELSE StepDone(f)

EndlessEpisodeStep ==
    /\ run.pc = "step"
    /\ run.t < EndlessSteps
    /\ \E action \in env.actions, obs \in EnvObs(env), reward \in env.rewards,
          d \in EndlessDone(run) :
         run' = episode_step(run, nb_stacked_frame, action, obs, reward, d)
    /\ UNCHANGED <<nb_stacked_frame, env, agent_shape, twin>>

NextEndless ==
    \/ Construct
    \/ TrainEnter
    \/ EpisodeBegin
    \/ EndlessEpisodeStep
    \/ EpisodeLearn
    \/ EpisodeRecord
    \/ TrainFinish

InitEndless ==
    /\ agent_shape = <<>>
    /\ twin = Off
    /\ nb_stacked_frame = 1
    /\ \E from \in 0..(EndlessEpisodes - 1) :
         env = [shape |-> <<2>>, obs_vals |-> {0}, actions |-> {0, 1},
                rewards |-> {0, 1}, horizon |-> 1, endless_from |-> from]
    /\ \E target \in {1, 2}, max_ep \in 1..EndlessEpisodes :
         run = NewRun(target, max_ep, 1, 50, 0)

\* train runs on as long as it can: the interpreter does not stop.
SpecEndless == InitEndless /\ [][NextEndless]_vars /\ WF_vars(NextEndless)

(***************************************************************************)
(* An environment that keeps one observation buffer: reset and step write  *)
(* the new observation into it in place and return the buffer itself, so   *)
(* whatever still refers to the buffer reads the newest observation.       *)
(***************************************************************************)
BufferStack == 2
BufferObsVal == 2
BufferEpisodes == 2
BufferSteps == 2

\* The observation of value v in the dtype of the environment.
BufferContent(e, v) ==
    IF e.dtype = "float32" THEN astype_float32(Obs(e.shape, v)).data
    ELSE Obs(e.shape, v).data

\* The environment after it wrote observation v into its buffer, and the
\* array it returns: the buffer.
env_write(e, v) == [e EXCEPT !.buf = BufferContent(e, v)]

env_buffer(e) ==
    [shape |-> e.shape, dtype |-> e.dtype, data |-> e.buf,
     base |-> "env", map |-> [idx \in Indices(e.shape) |-> idx]]

\* What an array holds now, the buffer holding buf.
Read(a, buf) ==
    IF "base" \in DOMAIN a THEN [idx \in DOMAIN a.map |-> buf[a.map[idx]]]
    ELSE a.data

BufferConstruct ==
    /\ run.pc = "new"
    /\ \E v \in env.obs_vals :
         /\ env' = env_write(env, v)
         /\ run' = construct(run, nb_stacked_frame, env_buffer(env'))
         /\ agent_shape' = agent_input_shape(agent_shape, nb_stacked_frame, env_buffer(env'))
    /\ UNCHANGED <<nb_stacked_frame, twin>>

BufferEpisodeBegin ==
    /\ run.pc = "while"
    /\ loop_condition(run)
    /\ \E v \in env.obs_vals :
         /\ env' = env_write(env, v)
         /\ run' = episode_begin(run, nb_stacked_frame, env_buffer(env'))
    /\ UNCHANGED <<nb_stacked_frame, agent_shape, twin>>

BufferEpisodeStep ==
    /\ run.pc = "step"
    /\ \E action \in env.actions, v \in env.obs_vals, reward \in env.rewards,
          d \in StepDone(run) :
         /\ env' = env_write(env, v)
         /\ run' = episode_step(run, nb_stacked_frame, action, env_buffer(env'), reward, d)
    /\ UNCHANGED <<nb_stacked_frame, agent_shape, twin>>

NextBuffer ==
    \/ BufferConstruct
    \/ TrainEnter
    \/ BufferEpisodeBegin
    \/ BufferEpisodeStep
    \/ EpisodeLearn
    \/ EpisodeRecord
    \/ TrainFinish

InitBuffer ==
    /\ agent_shape = <<>>
    /\ twin = Off
    /\ nb_stacked_frame \in 1..BufferStack
    /\ \E dtype \in {"float32", "float64"} :
         env = [shape |-> <<2>>, obs_vals |-> 0..BufferObsVal, actions |-> {0, 1},
                rewards |-> {0}, horizon |-> BufferSteps, dtype |-> dtype,
                buf |-> [idx \in Indices(<<2>>) |-> 0]]
    /\ run = NewRun(1, BufferEpisodes, 1, 50, 0)

SpecBuffer == InitBuffer /\ [][NextBuffer]_vars

(***************************************************************************)
(* What the properties below are stated with.                              *)
(***************************************************************************)
\* train has been entered and has not raised.
InTrain(f) == f.pc \in {"while", "step", "learn", "record", "done"}

\* The return of every episode a memory holds to its end (the transition
\* with done set): the sum of the rewards of its transitions.
RECURSIVE ReturnsFrom(_, _)
ReturnsFrom(mem, acc) ==
    IF mem = <<>> THEN <<>>
    ELSE IF Head(mem).done
         THEN <<acc + Head(mem).reward>> \o ReturnsFrom(Tail(mem), 0)
         ELSE ReturnsFrom(Tail(mem), acc + Head(mem).reward)

EpisodeReturns(f) == ReturnsFrom(f.memory, 0)

\* m is the arithmetic mean of the numbers xs; of no numbers it is nan.
IsMeanOf(m, xs) ==
    IF Len(xs) = 0 THEN m.kind = "nan"
    ELSE m.kind = "num" /\ m.den > 0 /\ m.num * Len(xs) = SumSeq(xs) * m.den

\* m is the number v.
IsNumber(m, v) == m.kind = "num" /\ m.den > 0 /\ m.num = v * m.den

Min(a, b) == IF a < b THEN a ELSE b

\* The returns of the min(i, cap) episodes up to episode i (1-based).
RecentReturns(returns, i, cap) == SubSeq(returns, i - Min(i, cap) + 1, i)

(***************************************************************************)
(* C1.  When train has left its loop, it ran at most max_episodes          *)
(* episodes, no episode was run after one whose rolling mean had reached   *)
(* target_score, it ran exactly max_episodes episodes if the rolling mean  *)
(* was below target_score after every episode, and otherwise the last      *)
(* episode it ran is one whose rolling mean is >= target_score.            *)
(***************************************************************************)
C1_StopsAtCapOrFirstConvergence ==
    run.pc = "done" =>
        LET n == Len(EpisodeReturns(run))
            target == Num(run.target_score, 1)
            below(i) == Less(run.plotted.rolling_average[i], target)
            reached(i) == GreaterEq(run.plotted.rolling_average[i], target)
        IN  /\ n = run.ep
            /\ n <= run.max_episodes
            /\ \A i \in 1..(n - 1) : ~reached(i)
            /\ (\A i \in 1..n : below(i)) => n = run.max_episodes
            /\ ~(\A i \in 1..n : below(i)) => reached(n)

\* The statement of C1 for windows that can hold a return.
C1_HoldsForCapacityAtLeastOne ==
    run.process_average_over >= 1 => C1_StopsAtCapOrFirstConvergence

(***************************************************************************)
(* C2.  After every episode i (0-based) the rolling mean stored for it is  *)
(* the arithmetic mean of the returns of the most recent                   *)
(* min(i+1, process_average_over) episodes, and the mean the loop tests    *)
(* next is the one stored for the last episode; returns [2,4,6,8,10] with  *)
(* process_average_over=5, target_score=10, max_episodes=5 run 5 episodes  *)
(* with rolling means [2,3,4,5,6].                                         *)
(***************************************************************************)
ScenarioRun ==
    /\ run.pc = "done"
    /\ run.target_score = 10 /\ run.max_episodes = 5 /\ run.process_average_over = 5
    /\ EpisodeReturns(run) = <<2, 4, 6, 8, 10>>

C2_RollingMeanOfRecentReturns ==
    /\ InTrain(run) =>
         /\ \A i \in 1..run.ep :
              IsMeanOf(run.training_rolling_average[i],
                       RecentReturns(EpisodeReturns(run), i, run.process_average_over))
         /\ run.ep > 0 => run.rolling_mean_score = run.training_rolling_average[run.ep]
    /\ ScenarioRun =>
         /\ run.ep = 5
         /\ Len(run.plotted.rolling_average) = 5
         /\ \A i \in 1..5 : IsNumber(run.plotted.rolling_average[i], i + 1)

C2_ScenarioReached == ScenarioRun /\ run.ep = 5

(***************************************************************************)
(* C3.  The rolling window never holds more than process_average_over      *)
(* returns and always holds the most recent returns in episode order; it   *)
(* changes only where the episode's return is appended, and an append to   *)
(* a full window drops exactly its oldest return.                          *)
(***************************************************************************)
C3_WindowIsBoundedFifo ==
    /\ [](InTrain(run) =>
            /\ Len(run.total_rewards) <= run.process_average_over
            /\ run.total_rewards =
                 LastN(SubSeq(EpisodeReturns(run), 1, run.ep), run.process_average_over))
    /\ [][run'.total_rewards # run.total_rewards =>
            /\ run.pc = "record"
            /\ run'.total_rewards =
                 LastN(Append(run.total_rewards, run.episode_reward), run.process_average_over)
            /\ Len(run.total_rewards) = run.process_average_over =>
                 run'.total_rewards = Append(Tail(run.total_rewards), run.episode_reward)]_vars

C3_OldestEvicted ==
    /\ InTrain(run)
    /\ run.process_average_over >= 1
    /\ run.ep > run.process_average_over
    /\ Len(run.total_rewards) = run.process_average_over
    /\ run.total_rewards[1] # EpisodeReturns(run)[1]

(***************************************************************************)
(* Frames of a stacked state.                                              *)
(***************************************************************************)
\* The sub-array of a at index i (0-based) of its axis p (1-based), as the
\* function from the indices of the other axes to the values.
FrameAt(a, p, i) ==
    [idx \in Indices(RemoveAt(a.shape, p)) |-> a.data[InsertAt(idx, p, i)]]

\* The episode's observation that the claim puts at temporal index i of a
\* state of depth k after n steps.
FrameSource(n, k, i) == IF n - k + 1 + i >= 0 THEN n - k + 1 + i ELSE 0

\* The state is a stack of k frames of the environment's observation shape
\* along axis p (1-based).
IsStackAlong(a, p, k, shape) ==
    /\ ~IsRaise(a)
    /\ Len(a.shape) = Len(shape) + 1
    /\ a.shape[p] = k
    /\ RemoveAt(a.shape, p) = shape

HasUnitAxis(shape) == \E j \in 1..Len(shape) : shape[j] = 1

(***************************************************************************)
(* C4.  For stack depth k > 1, after reset_env and n applications of       *)
(* get_next_state the state exists and holds, at index i of the temporal   *)
(* axis, the frame o_{n-k+1+i} (as 32-bit floats) when that index is >= 0  *)
(* and o_0 otherwise.                                                      *)
(***************************************************************************)
C4_FramesOldestToNewest ==
    (nb_stacked_frame > 1 /\ run.obs_hist # <<>>) =>
        LET n == Len(run.obs_hist) - 1 IN
        /\ run.raised_at # "step"
        /\ IsStackAlong(run.state, 2, nb_stacked_frame, env.shape)
        /\ \A i \in 0..(nb_stacked_frame - 1) :
             FrameAt(run.state, 2, i) =
               astype_float32(run.obs_hist[FrameSource(n, nb_stacked_frame, i) + 1]).data

\* The statement of C4 for observation shapes without an axis of length 1.
C4_HoldsWithoutUnitAxis == ~HasUnitAxis(env.shape) => C4_FramesOldestToNewest

(***************************************************************************)
(* C5.  Within a run, the state about to be passed to the agent and the    *)
(* state and next_state of every Transition have the shape of the initial  *)
(* state of reset_env (the shape the agent was built for), and             *)
(* get_next_state produces a state at every step.                          *)
(***************************************************************************)
C5_StatesShareOneShape ==
    (nb_stacked_frame >= 1 /\ (InTrain(run) \/ run.raised_at = "step")) =>
        /\ run.raised_at # "step"
        /\ run.pc = "step" => run.state.shape = agent_shape
        /\ \A j \in 1..Len(run.memory) :
             /\ run.memory[j].state.shape = agent_shape
             /\ run.memory[j].next_state.shape = agent_shape

\* The statement of C5 for observation shapes without an axis of length 1.
C5_HoldsWithoutUnitAxis == ~HasUnitAxis(env.shape) => C5_StatesShareOneShape

(***************************************************************************)
(* C6.  For stack depth k > 1 and an observation of any rank, reset_env    *)
(* gives a state whose shape is the observation's shape followed by one    *)
(* trailing axis of length k, and whose k frames along that axis equal     *)
(* the initial observation (as 32-bit floats).                             *)
(***************************************************************************)
AfterReset(f) == f.pc = "step" /\ f.t = 0

C6_TrailingAxisOfLengthK ==
    nb_stacked_frame > 1 =>
        /\ run.raised # "AxisError"
        /\ AfterReset(run) =>
             /\ run.state.shape = env.shape \o <<nb_stacked_frame>>
             /\ \A i \in 0..(nb_stacked_frame - 1) :
                  FrameAt(run.state, Len(run.state.shape), i) =
                    astype_float32(run.obs_hist[1]).data

(***************************************************************************)
(* C6, amended.  For stack depth k > 1 and an observation of rank >= 1,    *)
(* reset_env gives a state whose shape is the observation's shape with a   *)
(* new axis of length k inserted as the second axis and every axis of      *)
(* length 1 then removed, and whose k frames along the new axis equal the  *)
(* initial observation as 32-bit floats with its axes of length 1          *)
(* removed; for an observation of rank 0 reset_env raises, already in the  *)
(* constructor.                                                            *)
(***************************************************************************)
\* Where the second axis of a stack over shape is after the squeeze.
StackAxisAfterSqueeze(shape) == IF shape[1] = 1 THEN 1 ELSE 2

C6_SecondAxisOfLengthKSqueezed ==
    nb_stacked_frame > 1 =>
        /\ Len(env.shape) = 0 =>
             /\ run.pc \in {"new", "raised"}
             /\ run.pc = "raised" => run.raised = "AxisError"
        /\ AfterReset(run) =>
             /\ Len(env.shape) >= 1
             /\ run.state.shape =
                  SelectSeq(InsertAt(env.shape, 2, nb_stacked_frame), LAMBDA n : n # 1)
             /\ \A i \in 0..(nb_stacked_frame - 1) :
                  FrameAt(run.state, StackAxisAfterSqueeze(env.shape), i) =
                    np_squeeze(astype_float32(run.obs_hist[1])).data

C6_StackedInitialState ==
    /\ nb_stacked_frame = 3
    /\ env.shape = <<2, 3>>
    /\ AfterReset(run)
    /\ run.state.shape = <<2, 3, 3>>

(***************************************************************************)
(* C7.  When train has left its loop after n episodes, the score record    *)
(* and the rolling-mean record that are plotted have exactly n entries,    *)
(* entry i being the return of episode i (the sum of its step rewards)     *)
(* and the rolling mean computed right after episode i; no slot of the     *)
(* records that was never written is among them.                           *)
(***************************************************************************)
C7_RecordsCutToEpisodesRun ==
    run.pc = "done" =>
        LET returns == EpisodeReturns(run)
            n == Len(returns)
        IN  /\ run.learn_calls = n
            /\ Len(run.plotted.score) = n
            /\ Len(run.plotted.rolling_average) = n
            /\ Len(run.plotted.target) = n
            /\ run.training_score = run.plotted.score
            /\ run.training_rolling_average = run.plotted.rolling_average
            /\ \A i \in 1..n :
                 /\ run.plotted.score[i] = Num(returns[i], 1)
                 /\ run.plotted.rolling_average[i].kind # "uninit"
                 /\ IsMeanOf(run.plotted.rolling_average[i],
                             RecentReturns(returns, i, run.process_average_over))

C7_StoppedBeforeCap ==
    /\ run.pc = "done"
    /\ run.ep >= 2
    /\ run.ep < run.max_episodes
    /\ Len(run.plotted.score) = run.ep

(***************************************************************************)
(* C8.  Whenever the rolling window is empty, whatever its capacity, the   *)
(* rolling mean that the loop compares with target_score is negative       *)
(* infinity, so train does not leave its loop on the convergence           *)
(* condition while the window holds no return; when train enters its loop  *)
(* the episode index is 0 and the rolling mean is negative infinity.       *)
(***************************************************************************)
C8_EmptyWindowMeansNegInf ==
    InTrain(run) =>
        /\ Len(run.total_rewards) = 0 =>
             /\ run.rolling_mean_score = NegInf
             /\ run.pc = "done" => run.ep = run.max_episodes
        /\ (run.pc = "while" /\ run.memory = <<>>) =>
             (run.ep = 0 /\ run.rolling_mean_score = NegInf)

\* The statement of C8 for windows that can hold a return.
C8_HoldsForCapacityAtLeastOne ==
    run.process_average_over >= 1 => C8_EmptyWindowMeansNegInf

(***************************************************************************)
(* C9.  For test_every >= 1 and test_on >= 0, the episode of index ep is   *)
(* visualized (env.render called at each of its steps) exactly when        *)
(* test_on > 0 and ep modulo test_every is less than test_on.              *)
(***************************************************************************)
InEpisode(f) == f.pc \in {"step", "learn", "record"}

C9_VisualizedByEpisodeIndex ==
    (InEpisode(run) /\ run.test_every >= 1) =>
        LET shown == run.test_on > 0 /\ run.ep % run.test_every < run.test_on IN
        /\ run.visualize = shown
        /\ run.render_calls = IF shown THEN run.t ELSE 0

(***************************************************************************)
(* C9, amended.  For test_every >= 1 and test_on >= 0, the episode of      *)
(* index ep is visualized (env.render called at each of its steps)         *)
(* exactly when ep + 1 > test_on and (ep + 1) modulo test_every is less    *)
(* than test_on.                                                           *)
(***************************************************************************)
C9_VisualizedByEpisodeNumber ==
    (InEpisode(run) /\ run.test_every >= 1) =>
        LET shown == run.ep + 1 > run.test_on
                     /\ (run.ep + 1) % run.test_every < run.test_on IN
        /\ run.visualize = shown
        /\ run.render_calls = IF shown THEN run.t ELSE 0

C9_EpisodeRendered ==
    /\ run.pc = "learn"
    /\ run.test_every >= 1
    /\ run.visualize
    /\ run.t >= 2
    /\ run.ep >= 1
    /\ run.render_calls = run.t

(***************************************************************************)
(* C10.  Two calls of train that get the same observations, actions,       *)
(* rewards and done flags and the same target_score, max_episodes and      *)
(* process_average_over, and differ in (test_every, test_on), run the      *)
(* same number of episodes, append the same Transitions to agent memory,   *)
(* call the learning hook as often and plot the same records, and neither  *)
(* raises because of test_every or test_on.                                *)
(***************************************************************************)
C10_VisualizationDoesNotAffectTraining ==
    twin.pc # "off" =>
        /\ run.raised # "ZeroDivisionError"
        /\ twin.raised # "ZeroDivisionError"
        /\ run.pc = twin.pc
        /\ run.ep = twin.ep
        /\ run.memory = twin.memory
        /\ run.learn_calls = twin.learn_calls
        /\ run.training_score = twin.training_score
        /\ run.training_rolling_average = twin.training_rolling_average
        /\ run.plotted = twin.plotted

\* The statement of C10 for calls with test_every >= 1.
C10_HoldsForPeriodAtLeastOne ==
    (run.test_every >= 1 /\ twin.test_every >= 1) => C10_VisualizationDoesNotAffectTraining

(***************************************************************************)
(* C11.  Constructing a Simulation with nb_stacked_frame < 1 fails with    *)
(* the error of an invalid configuration (the failed assertion of the      *)
(* constructor), raised before the environment is made or reset and        *)
(* before the agent is constructed, and train is never reached.            *)
(***************************************************************************)
\* The exception the constructor raises for an invalid stack depth.
ConfigurationError(e) == e = "AssertionError"

C11_DepthBelowOneFailsEagerly ==
    nb_stacked_frame < 1 =>
        /\ run.pc \in {"new", "raised"}
        /\ run.pc = "raised" =>
             /\ ConfigurationError(run.raised)
             /\ run.raised_at = "new"
             /\ run.calls = <<>>
             /\ agent_shape = <<>>
             /\ run.memory = <<>> /\ run.learn_calls = 0

C11_DepthBelowOneRejected ==
    /\ nb_stacked_frame < 1
    /\ run.pc = "raised"
    /\ run.raised = "AssertionError"

(***************************************************************************)
(* C12.  For stack depth 1, get_next_state returns exactly the new raw     *)
(* observation (its shape and its values), whatever the current state.     *)
(***************************************************************************)
\* Current states of any shape and either dtype.
SomeStates ==
    {Obs(shape, v) : shape \in Shapes, v \in 0..MaxObsVal}
      \cup {astype_float32(Obs(shape, v)) : shape \in Shapes, v \in 0..MaxObsVal}

\* Arrays of one shape and the same values.
SameValues(a, b) == a.shape = b.shape /\ a.data = b.data

C12_ReturnsRawObservation ==
    nb_stacked_frame = 1 =>
        /\ \A obs \in EnvObs(env), current_state \in SomeStates :
             SameValues(get_next_state(nb_stacked_frame, current_state, obs), obs)
        /\ InEpisode(run) =>
             \A j \in 1..run.t :
                SameValues(run.memory[j].next_state, run.obs_hist[j + 1])

(***************************************************************************)
(* C12, amended.  For stack depth 1, get_next_state returns the new raw    *)
(* observation cast to 32-bit floats (same shape, every value rounded to   *)
(* the nearest 32-bit float), whatever the current state.                  *)
(***************************************************************************)
C12_ReturnsObservationAsFloat32 ==
    nb_stacked_frame = 1 =>
        /\ \A obs \in EnvObs(env), current_state \in SomeStates :
             get_next_state(nb_stacked_frame, current_state, obs) = astype_float32(obs)
        /\ InEpisode(run) =>
             \A j \in 1..run.t :
                run.memory[j].next_state = astype_float32(run.obs_hist[j + 1])

C12_RoundedObservationStored ==
    /\ nb_stacked_frame = 1
    /\ run.pc = "step"
    /\ run.t >= 2
    /\ run.memory[run.t].next_state.data # run.obs_hist[run.t + 1].data
    /\ run.memory[run.t].next_state # run.memory[run.t].state

(***************************************************************************)
(* C13.  get_next_state leaves its arguments as they are and returns a     *)
(* new array: what it reads besides them (the stack depth) never changes,  *)
(* so equal arguments give equal results; its result shares no memory      *)
(* with the environment's observation buffer; and the state and            *)
(* next_state of a Transition in agent memory hold after every later step  *)
(* what they held when the Transition was appended, also when the          *)
(* environment reuses its buffer.                                          *)
(***************************************************************************)
\* The array is not a view of a buffer.
IsFresh(a) == "base" \notin DOMAIN a

\* What the two arrays of a transition hold now.
ReadTransition(tr, buf) ==
    <<Read(tr.state, buf), Read(tr.next_state, buf)>>

C13_StoredStatesNeverAltered ==
    /\ [](\A j \in 1..Len(run.memory) :
            /\ IsFresh(run.memory[j].state)
            /\ IsFresh(run.memory[j].next_state)
            /\ ReadTransition(run.memory[j], env.buf) =
                 <<run.memory[j].state.data, run.memory[j].next_state.data>>)
    /\ [][/\ nb_stacked_frame' = nb_stacked_frame
          /\ Len(run'.memory) >= Len(run.memory)
          /\ \A j \in 1..Len(run.memory) :
               /\ run'.memory[j] = run.memory[j]
               /\ ReadTransition(run'.memory[j], env'.buf) =
                    ReadTransition(run.memory[j], env.buf)]_vars

C13_BufferOverwrittenAfterAppend ==
    /\ run.pc = "learn"
    /\ env.dtype = "float32"
    /\ run.t >= 2
    /\ env.buf # run.memory[Len(run.memory) - 1].next_state.data
    /\ env.buf = run.memory[Len(run.memory)].next_state.data

(***************************************************************************)
(* The order of the calls of train.                                        *)
(***************************************************************************)
\* The calls made by train: those after the construction of the agent.
TrainCalls(f) ==
    LET made == {i \in 1..Len(f.calls) : f.calls[i].call = "Agent"} IN
    IF made = {} THEN <<>>
    ELSE SubSeq(f.calls, (CHOOSE i \in made : TRUE) + 1, Len(f.calls))

\* Where an episode is after one more call, for the calls that matter to
\* the order: reset, then one or more appends to agent memory, then the
\* learning hook, then the append to the window.
OrderAfter(q, c) ==
    CASE c = "env.reset" -> IF q = "idle" THEN "reset" ELSE "bad"
      [] c = "agent.memory.append" ->
           IF q \in {"reset", "running"} THEN "running" ELSE "bad"
      [] c = "agent.learn_end_ep" -> IF q = "running" THEN "learned" ELSE "bad"
      [] c = "total_rewards.append" -> IF q = "learned" THEN "idle" ELSE "bad"
      [] OTHER -> q

RECURSIVE Order(_, _)
Order(cs, q) == IF cs = <<>> THEN q ELSE Order(Tail(cs), OrderAfter(q, Head(cs).call))

\* How many of the calls cs are calls of name.
CountCalls(cs, name) == Cardinality({i \in 1..Len(cs) : cs[i].call = name})

(***************************************************************************)
(* C14.  In every episode of train the calls come in this order: the       *)
(* reset of the environment, the appends of the episode's Transitions to   *)
(* agent memory, the learning hook exactly once, the append of the return  *)
(* to the window; the episode index then advances by one, in the same      *)
(* pass.  The hook is called only when the episode's last step reported    *)
(* done, and the number of its calls is the number of episodes that ran    *)
(* to their end: the episode index at every test of the loop and inside    *)
(* every episode, one more between the hook and the advance of the index.  *)
(***************************************************************************)
C14_EpisodeEventsInOrder ==
    /\ [](InTrain(run) =>
            LET cs == TrainCalls(run)
                q == Order(cs, "idle")
            IN  /\ q # "bad"
                /\ run.pc \in {"while", "done"} => q = "idle"
                /\ run.pc = "step" => q = (IF run.t = 0 THEN "reset" ELSE "running")
                /\ run.pc = "learn" => q = "running"
                /\ run.pc = "record" => q = "learned"
                /\ CountCalls(cs, "agent.memory.append") = Len(run.memory)
                /\ CountCalls(cs, "agent.learn_end_ep") = run.learn_calls
                /\ CountCalls(cs, "total_rewards.append") = run.ep
                /\ CountCalls(cs, "env.reset") = run.ep + (IF InEpisode(run) THEN 1 ELSE 0)
                /\ run.learn_calls = run.ep + (IF run.pc = "record" THEN 1 ELSE 0)
                /\ run.pc # "learn" => run.learn_calls = Len(EpisodeReturns(run)))
    /\ [][/\ run'.learn_calls # run.learn_calls =>
               /\ run.pc = "learn"
               /\ run.done
               /\ run.memory[Len(run.memory)].done
               /\ run'.learn_calls = run.learn_calls + 1
               /\ run'.memory = run.memory
          /\ (InTrain(run) /\ run'.ep # run.ep) =>
               /\ run.pc = "record"
               /\ run'.ep = run.ep + 1
               /\ run.learn_calls = run.ep + 1
               /\ run'.total_rewards =
                    deque_append(run.total_rewards, run.process_average_over,
                                 run.episode_reward)]_vars

C14_HookCalledAfterLastTransition ==
    /\ run.pc = "record"
    /\ run.ep >= 1
    /\ run.t >= 2
    /\ run.learn_calls = run.ep + 1
    /\ run.calls[Len(run.calls)].call = "agent.learn_end_ep"
    /\ run.calls[Len(run.calls) - 1].call = "agent.memory.append"

(***************************************************************************)
(* C15.  One Transition is appended to agent memory per environment step,  *)
(* in step order, with the action that was passed to env.step; in every    *)
(* episode the first Transition's state is the initial state of            *)
(* reset_env, each next_state is the state of the Transition that          *)
(* follows, and done is set in the last Transition of an episode and in    *)
(* no earlier one.                                                         *)
(***************************************************************************)
\* The calls cs of one name, in order.
CallsOf(cs, name) == SelectSeq(cs, LAMBDA c : c.call = name)

\* The episode (counted from 1) in which the j-th Transition was appended:
\* the number of resets before the j-th append.
RECURSIVE ResetsBeforeAppend(_, _, _)
ResetsBeforeAppend(cs, j, resets) ==
    IF cs = <<>> THEN resets
    ELSE IF Head(cs).call = "env.reset" THEN ResetsBeforeAppend(Tail(cs), j, resets + 1)
    ELSE IF Head(cs).call = "agent.memory.append"
         THEN IF j = 1 THEN resets ELSE ResetsBeforeAppend(Tail(cs), j - 1, resets)
    ELSE ResetsBeforeAppend(Tail(cs), j, resets)

EpisodeOf(f, j) == ResetsBeforeAppend(TrainCalls(f), j, 0)

C15_OneTransitionPerStepChained ==
    InTrain(run) =>
        LET n == Len(run.memory)
            steps == CallsOf(TrainCalls(run), "env.step")
        IN  /\ Len(steps) = n
            /\ \A j \in 1..n : run.memory[j].action = steps[j].arg
            /\ \A j \in 1..n :
                 run.memory[j].done <=>
                   IF j = n THEN (run.pc # "step" \/ run.t = 0)
                   ELSE EpisodeOf(run, j + 1) # EpisodeOf(run, j)
            /\ InEpisode(run) =>
                 /\ run.t <= n
                 /\ \A j \in (n - run.t + 1)..n : EpisodeOf(run, j) = run.ep + 1
                 /\ run.t >= 1 =>
                      run.memory[n - run.t + 1].state =
                        reset_env(nb_stacked_frame, run.obs_hist[1])
                 /\ \A j \in (n - run.t + 1)..(n - 1) :
                      run.memory[j].next_state = run.memory[j + 1].state
                 /\ \A j \in (n - run.t + 1)..n :
                      run.memory[j].next_state =
                        get_next_state(nb_stacked_frame, run.memory[j].state,
                                       run.obs_hist[j - (n - run.t) + 1])
                 /\ (run.pc = "step" /\ run.t >= 1) => run.state = run.memory[n].next_state

C15_SecondEpisodeChained ==
    /\ nb_stacked_frame = 2
    /\ run.pc = "learn"
    /\ run.ep = 1
    /\ run.t = 2
    /\ Len(run.memory) >= 3
    /\ run.memory[Len(run.memory)].action # run.memory[Len(run.memory) - 1].action
    /\ run.memory[Len(run.memory)].state # run.memory[Len(run.memory) - 1].state
    /\ run.memory[Len(run.memory) - 1].state # run.memory[Len(run.memory) - 2].next_state

(***************************************************************************)
(* C16.  When a call of the environment (reset, step) or of the agent      *)
(* (take_action, memory.append, learn_end_ep) raises during train, train   *)
(* ends with that exception: the call is the last call made (no retry, no  *)
(* further step or episode), the episode index is the number of episodes   *)
(* completed before, and no record is written for the failing episode or   *)
(* handed to the plot.                                                     *)
(***************************************************************************)
\* The calls of the log that raised.
FailedCalls(f) == {i \in 1..Len(f.calls) : f.calls[i].raise # ""}

C16_CollaboratorExceptionEndsTrain ==
    /\ [](\A i \in FailedCalls(run) :
            /\ i = Len(run.calls)
            /\ run.pc = "raised"
            /\ run.raised = run.calls[i].raise)
    /\ [](run.pc = "raised" =>
            /\ FailedCalls(run) # {}
            /\ run.plotted = None
            /\ run.ep = CountCalls(run.calls, "total_rewards.append")
            /\ CountCalls(run.calls, "agent.learn_end_ep") =
                 run.ep + (IF run.raised_at = "learn" THEN 1 ELSE 0)
            /\ run.ep < run.max_episodes
            /\ run.training_score[run.ep + 1] = Uninit
            /\ run.training_rolling_average[run.ep + 1] = Uninit)
    /\ [][run.pc # "raised"]_vars

C16_StepRaisedInSecondEpisode ==
    /\ run.pc = "raised"
    /\ run.ep = 1
    /\ run.t = 1
    /\ run.calls[Len(run.calls)].call = "env.step"
    /\ run.calls[Len(run.calls)].raise = "RuntimeError"
    /\ Len(run.memory) >= 2

(***************************************************************************)
(* C17.  train leaves its loop only at the test between two episodes,      *)
(* when the rolling mean has reached target_score or max_episodes          *)
(* episodes have run.  In an episode in which the environment never        *)
(* reports done, every step is followed by another one that appends one    *)
(* more Transition: the episode index stays, the learning hook is not      *)
(* called, train does not end, whatever max_episodes and target_score      *)
(* are, and the steps go on beyond every number of steps (here: up to the  *)
(* bound of the model).                                                    *)
(***************************************************************************)
\* The run is in an episode in which the environment never reports done.
InEndlessEpisode(f) == f.pc = "step" /\ f.ep >= env.endless_from

C17_EpisodeWithoutDoneNeverEnds ==
    /\ [][run'.pc = "done" => (run.pc = "while" /\ ~loop_condition(run))]_vars
    /\ [](InEndlessEpisode(run) =>
            /\ run.learn_calls = run.ep
            /\ run.ep = env.endless_from
            /\ run.plotted = None
            /\ \A j \in (Len(run.memory) - run.t + 1)..Len(run.memory) :
                 ~run.memory[j].done)
    /\ [][InEndlessEpisode(run) =>
            /\ InEndlessEpisode(run')
            /\ run'.ep = run.ep
            /\ run'.learn_calls = run.learn_calls
            /\ run'.t = run.t + 1
            /\ Len(run'.memory) = Len(run.memory) + 1
            /\ SubSeq(run'.memory, 1, Len(run.memory)) = run.memory]_vars
    /\ [](InEndlessEpisode(run) => [](InEndlessEpisode(run)))
    /\ (InEndlessEpisode(run) ~> (InEndlessEpisode(run) /\ run.t = EndlessSteps))

C17_StepsBeyondCapAndTarget ==
    /\ InEndlessEpisode(run)
    /\ run.ep = 1
    /\ run.ep = run.max_episodes - 1
    /\ run.t = EndlessSteps
    /\ run.t > run.max_episodes
    /\ run.episode_reward >= run.target_score
    /\ Len(run.memory) > EndlessSteps

====
